---------------------------- MODULE Spec2Model ----------------------------
(***************************************************************************)
(* Model of src/src/App.js: the App component of the income-statement      *)
(* table.  The component's hook state (data, filteredData, loading, error, *)
(* isFilterVisible, filters, sortConfig), the memoised sortedData, the     *)
(* mount effect that fetches the statements, the effect that re-applies    *)
(* the filters, and the three event handlers.                              *)
(*                                                                         *)
(* JavaScript values are encoded uniformly as records [k, v]:              *)
(*   k = "num"   a finite number v                                         *)
(*   k = "inf"   +Infinity                                                 *)
(*   k = "nan"   NaN                                                       *)
(*   k = "null"  null                                                      *)
(*   k = "undef" undefined (an absent property)                            *)
(* Strings that the code parses (dates, input values) are sequences of     *)
(* one-character strings, so that split and parseInt are computed.         *)
(***************************************************************************)
EXTENDS Integers, Sequences, FiniteSets, TLC

VARIABLES
    data,            \* useState(null), line 11
    filteredData,    \* useState([]), line 12
    loading,         \* useState(true), line 13
    error,           \* useState(null), line 14
    isFilterVisible, \* useState(false), line 15
    filters,         \* useState({...}), lines 17-21
    sortConfig,      \* useState({key, direction}), lines 23-26
    sortedData,      \* the value of the useMemo of lines 101-119
    requests,        \* number of axios.get calls issued so far
    crashed,         \* a render or an effect threw: React unmounted the tree
                     \* (the hook values are those the failing pass was given)
    lastClick,       \* the key of the last column-header click, "" before any
    phase,           \* "component", or "called"/"returned" when one function
                     \* is run on its own
    event,           \* e.target of a change event handled on its own
    num,             \* argument of a formatToBillions call
    formatted        \* its result

vars == <<data, filteredData, loading, error, isFilterVisible, filters,
          sortConfig, sortedData, requests, crashed, lastClick, phase, event,
          event, num, formatted>>

---------------------------------------------------------------------------
(* JavaScript values *)

Num(n) == [k |-> "num", v |-> n]
Infinity == [k |-> "inf", v |-> 0]
NaN == [k |-> "nan", v |-> 0]
Null == [k |-> "null", v |-> 0]
Undefined == [k |-> "undef", v |-> 0]

\* ToNumber as it would be if undefined were coerced like null
ToNumberUndefinedAsZero(x) ==
    CASE x.k = "null" -> Num(0)
      [] x.k = "undef" -> Num(0)
      [] OTHER -> x

\* ToNumber of the relational and arithmetic operators: null is 0,
\* undefined is NaN.
ToNumber(x) ==
    CASE x.k = "null" -> Num(0)
      [] x.k = "undef" -> NaN
      [] OTHER -> x

\* a >= b
Ge(a, b) ==
    LET x == ToNumber(a)
        y == ToNumber(b)
    IN  /\ x.k # "nan"
        /\ y.k # "nan"
        /\ \/ x.k = "inf"
           \/ y.k = "num" /\ x.v >= y.v

\* a <= b
Le(a, b) == Ge(b, a)

\* a - b, for operands that are not infinite
Minus(a, b) ==
    LET x == ToNumber(a)
        y == ToNumber(b)
    IN  IF x.k = "num" /\ y.k = "num" THEN Num(x.v - y.v) ELSE NaN

\* A number too wide for the model's integers is kept as its decimal
\* literal: a sign and the digits of its magnitude.
NumberLiteral(neg, digits) == [k |-> "num", neg |-> neg, digits |-> digits]
NullLiteral == [k |-> "null", neg |-> FALSE, digits |-> <<>>]
UndefinedLiteral == [k |-> "undef", neg |-> FALSE, digits |-> <<>>]

NoEvent == [name |-> <<>>, value |-> <<>>]

---------------------------------------------------------------------------
(* Strings *)

Digits == {"0", "1", "2", "3", "4", "5", "6", "7", "8", "9"}

DigitVal(c) ==
    CASE c = "0" -> 0 [] c = "1" -> 1 [] c = "2" -> 2 [] c = "3" -> 3
      [] c = "4" -> 4 [] c = "5" -> 5 [] c = "6" -> 6 [] c = "7" -> 7
      [] c = "8" -> 8 [] c = "9" -> 9

DigitChar(d) ==
    CASE d = 0 -> "0" [] d = 1 -> "1" [] d = 2 -> "2" [] d = 3 -> "3"
      [] d = 4 -> "4" [] d = 5 -> "5" [] d = 6 -> "6" [] d = 7 -> "7"
      [] d = 8 -> "8" [] d = 9 -> "9"

\* String(n) for a non-negative integer n
RECURSIVE NatToString(_)
NatToString(n) ==
    IF n < 10 THEN <<DigitChar(n)>>
    ELSE Append(NatToString(n \div 10), DigitChar(n % 10))

\* the index of the first occurrence of the character sep in s at or after
\* position i, or 0 when there is none
RECURSIVE IndexOf(_, _, _)
IndexOf(s, sep, i) ==
    IF i > Len(s) THEN 0
    ELSE IF s[i] = sep THEN i
    ELSE IndexOf(s, sep, i + 1)

\* s.split(sep): the pieces of s between the occurrences of the character sep
RECURSIVE Split(_, _)
Split(s, sep) ==
    LET i == IndexOf(s, sep, 1)
    IN  IF i = 0 THEN <<s>>
        ELSE <<SubSeq(s, 1, i - 1)>> \o Split(SubSeq(s, i + 1, Len(s)), sep)

\* the length of the run of digits of s that starts at position i
RECURSIVE DigitRun(_, _)
DigitRun(s, i) ==
    IF i > Len(s) \/ s[i] \notin Digits THEN 0
    ELSE 1 + DigitRun(s, i + 1)

\* the longest prefix of s made of digits
DigitPrefix(s) == SubSeq(s, 1, DigitRun(s, 1))

RECURSIVE DigitsValue(_)
DigitsValue(s) ==
    IF s = <<>> THEN 0
    ELSE 10 * DigitsValue(SubSeq(s, 1, Len(s) - 1)) + DigitVal(s[Len(s)])

\* parseInt(s): an optional sign, then the longest run of digits; NaN when
\* there is no digit at that place
ParseInt(s) ==
    LET neg == s # <<>> /\ s[1] = "-"
        body == IF s # <<>> /\ s[1] \in {"-", "+"} THEN Tail(s) ELSE s
        ds == DigitPrefix(body)
    IN  IF ds = <<>> THEN NaN
        ELSE Num(IF neg THEN 0 - DigitsValue(ds) ELSE DigitsValue(ds))

---------------------------------------------------------------------------
(* Dates *)

\* days from 1970-01-01 to the civil date y-m-d (proleptic Gregorian)
DaysFromCivil(y, m, d) ==
    LET yy == IF m <= 2 THEN y - 1 ELSE y
        era == yy \div 400
        yoe == yy - era * 400
        mp == IF m > 2 THEN m - 3 ELSE m + 9
        doy == (153 * mp + 2) \div 5 + d - 1
        doe == yoe * 365 + yoe \div 4 - yoe \div 100 + doy
    IN  era * 146097 + doe - 719468

AllDigits(s) == \A i \in 1..Len(s) : s[i] \in Digits

\* The time value of new Date(s) for a date-only string YYYY-MM-DD, counted
\* in days instead of milliseconds (a day is 86400000 ms, which only scales
\* the differences the comparator returns); NaN for an Invalid Date.
DateValue(s) ==
    LET p == Split(s, "-")
    IN  IF /\ Len(p) = 3
           /\ Len(p[1]) = 4 /\ Len(p[2]) = 2 /\ Len(p[3]) = 2
           /\ AllDigits(p[1]) /\ AllDigits(p[2]) /\ AllDigits(p[3])
           /\ DigitsValue(p[2]) \in 1..12
           /\ DigitsValue(p[3]) \in 1..31
        THEN Num(DaysFromCivil(DigitsValue(p[1]), DigitsValue(p[2]),
                               DigitsValue(p[3])))
        ELSE NaN

---------------------------------------------------------------------------
(* Records *)

MaxRecords == 2

\* FinancialRecord objects of a response; grossProfit, operatingIncome and
\* eps are only rendered and are left out.
Rec(d, r, n) == [date |-> d, revenue |-> r, netIncome |-> n]

Date2019 == <<"2", "0", "1", "9", "-", "0", "9", "-", "2", "8">>
Date2020 == <<"2", "0", "2", "0", "-", "0", "9", "-", "2", "6">>
Date2021 == <<"2", "0", "2", "1", "-", "0", "9", "-", "2", "5">>
Date2023 == <<"2", "0", "2", "3", "-", "0", "9", "-", "3", "0">>
Date2024 == <<"2", "0", "2", "4", "-", "0", "9", "-", "2", "8">>

SampleDates == {Date2019, Date2020, Date2021, Date2023, Date2024}

\* records for the checks of applyFilters and sortedData on their own
SampleRecords ==
    { Rec(Date2020, Num(100), Num(100)),
      Rec(Date2020, Num(200), Num(100)),
      Rec(Date2021, Num(100), Num(200)),
      Rec(Date2019, Num(300), Num(50)),
      Rec(Date2023, Null, Num(100)),
      Rec(Date2021, Num(200), Null),
      Rec(Date2024, Num(100), Undefined) }

\* records of the responses the component receives
ResponseRecords ==
    { Rec(Date2020, Num(100), Num(100)),
      Rec(Date2021, Num(200), Num(100)),
      Rec(Date2023, Null, Num(200)) }

\* parseInt(date.split('-')[0]) and new Date(date) of the sample dates,
\* each computed once
YearOfDate == [d \in SampleDates |-> ParseInt(Split(d, "-")[1])]
TimeOfDate == [d \in SampleDates |-> DateValue(d)]

---------------------------------------------------------------------------
(* Values of data, filteredData and error *)

JsArray(items) == [t |-> "array", items |-> items]
JsString(chars) == [t |-> "string", items |-> chars]
JsNull == [t |-> "null", items |-> <<>>]
JsObject == [t |-> "object", items |-> <<>>]

\* if (x), x && ...
Truthy(x) ==
    CASE x.t = "array" -> TRUE
      [] x.t = "object" -> TRUE
      [] x.t = "string" -> x.items # <<>>
      [] OTHER -> FALSE

NoError == [t |-> "null", msg |-> ""]
ErrorMessage(m) == [t |-> "string", msg |-> m]

\* if (error)
TruthyError(e) == e.t = "string" /\ e.msg # ""

---------------------------------------------------------------------------
(* applyFilters *)

\* the predicate as it would be with the minimum revenue excluded
FilterPredicateExclusiveMin(item, f) ==
    LET year == YearOfDate[item.date]
    IN  /\ Ge(year, f.yearRange.start)
        /\ Le(year, f.yearRange.end)
        /\ Ge(item.revenue, f.revenueRange.min)
        /\ ~Le(item.revenue, f.revenueRange.min)
        /\ Le(item.revenue, f.revenueRange.max)
        /\ Ge(item.netIncome, f.netIncomeRange.min)
        /\ Le(item.netIncome, f.netIncomeRange.max)

\* the arrow function passed to data.filter
FilterPredicate(item, f) ==
    LET year == YearOfDate[item.date]
    IN  /\ Ge(year, f.yearRange.start)
        /\ Le(year, f.yearRange.end)
        /\ Ge(item.revenue, f.revenueRange.min)
        /\ Le(item.revenue, f.revenueRange.max)
        /\ Ge(item.netIncome, f.netIncomeRange.min)
        /\ Le(item.netIncome, f.netIncomeRange.max)

\* Array.prototype.filter: a new array, the receiver is not changed
ArrayFilter(items, f) ==
    LET Keep(item) == FilterPredicate(item, f)
    IN  SelectSeq(items, Keep)

\* applyFilters() in a closure that holds data d and filters f, while
\* filteredData is fd.  A truthy d that is no array has no filter method:
\* the call throws a TypeError.
ApplyFilters(d, f, fd) ==
    IF ~Truthy(d) THEN [threw |-> FALSE, filteredData |-> fd]
    ELSE IF d.t # "array" THEN [threw |-> TRUE, filteredData |-> fd]
    ELSE [threw |-> FALSE, filteredData |-> JsArray(ArrayFilter(d.items, f))]

---------------------------------------------------------------------------
(* sortedData *)

\* the comparator passed to sortableData.sort
CompareFn(sc, a, b) ==
    IF sc.key = "date"
    THEN IF sc.direction = "asc"
         THEN Minus(TimeOfDate[a.date], TimeOfDate[b.date])
         ELSE Minus(TimeOfDate[b.date], TimeOfDate[a.date])
    ELSE IF sc.key = "revenue"
    THEN IF sc.direction = "asc"
         THEN Minus(a.revenue, b.revenue)
         ELSE Minus(b.revenue, a.revenue)
    ELSE IF sc.key = "netIncome"
    THEN IF sc.direction = "asc"
         THEN Minus(a.netIncome, b.netIncome)
         ELSE Minus(b.netIncome, a.netIncome)
    ELSE Num(0)

\* SortCompare: a comparator result of NaN counts as +0
ComesAfter(sc, a, b) ==
    LET c == CompareFn(sc, a, b)
    IN  c.k = "num" /\ c.v > 0

\* the last index of sorted whose element does not come after x, or 0
RECURSIVE InsertionPoint(_, _, _, _)
InsertionPoint(sorted, x, sc, j) ==
    IF j = 0 THEN 0
    ELSE IF ~ComesAfter(sc, sorted[j], x) THEN j
    ELSE InsertionPoint(sorted, x, sc, j - 1)

InsertAt(sorted, x, pos) ==
    SubSeq(sorted, 1, pos) \o <<x>> \o SubSeq(sorted, pos + 1, Len(sorted))

\* one insertion of a stable sort: x goes behind the last element that
\* does not come after it
InsertSorted(sorted, x, sc) ==
    InsertAt(sorted, x, InsertionPoint(sorted, x, sc, Len(sorted)))

\* Array.prototype.sort with the comparator of sortedData (stable since
\* ES2019)
RECURSIVE ArraySort(_, _)
ArraySort(items, sc) ==
    IF items = <<>> THEN <<>>
    ELSE InsertSorted(ArraySort(SubSeq(items, 1, Len(items) - 1), sc),
                      items[Len(items)], sc)

\* the items in reverse order
RECURSIVE Reverse(_)
Reverse(items) ==
    IF items = <<>> THEN <<>>
    ELSE Append(Reverse(Tail(items)), Head(items))

\* the memo as it would be if desc sorted ascending and reversed the array
SortedDataMemoReversing(fd, sc) ==
    IF fd.t \in {"null", "object"}
    THEN [threw |-> TRUE, filteredData |-> fd, sortedData |-> <<>>]
    ELSE LET sortableData == fd.items
             asc == [key |-> sc.key, direction |-> "asc"]
         IN  [threw |-> FALSE,
              filteredData |-> fd,
              sortedData |-> IF sc.key = "" THEN sortableData
                             ELSE IF sc.direction = "desc"
                             THEN Reverse(ArraySort(sortableData, asc))
                             ELSE ArraySort(sortableData, sc)]

\* the memo as it would be if it sorted filteredData itself, not a copy
SortedDataMemoInPlace(fd, sc) ==
    IF fd.t \in {"null", "object"}
    THEN [threw |-> TRUE, filteredData |-> fd, sortedData |-> <<>>]
    ELSE LET sorted == IF sc.key # "" THEN ArraySort(fd.items, sc)
                       ELSE fd.items
         IN  [threw |-> FALSE,
              filteredData |-> [t |-> fd.t, items |-> sorted],
              sortedData |-> sorted]

\* The useMemo callback for filteredData fd and sortConfig sc: the value
\* it returns and what it leaves in fd.  [...fd] throws a TypeError when fd
\* is not iterable (null, a plain object).
SortedDataMemo(fd, sc) ==
    IF fd.t \in {"null", "object"}
    THEN [threw |-> TRUE, filteredData |-> fd, sortedData |-> <<>>]
    ELSE LET sortableData == fd.items
         IN  [threw |-> FALSE,
              filteredData |-> fd,
              sortedData |-> IF sc.key # "" THEN ArraySort(sortableData, sc)
                             ELSE sortableData]

---------------------------------------------------------------------------
(* formatToBillions *)

\* digits without leading zeros ("0" for zero)
RECURSIVE StripZeros(_)
StripZeros(ds) ==
    IF Len(ds) > 1 /\ ds[1] = "0" THEN StripZeros(Tail(ds)) ELSE ds

\* ds padded on the left with zeros to at least n characters
RECURSIVE PadLeft(_, _)
PadLeft(ds, n) == IF Len(ds) >= n THEN ds ELSE PadLeft(<<"0">> \o ds, n)

\* the thousandths as they would be if the quotient were cut, not rounded
TruncatedThousandths(digits) ==
    LET ds == PadLeft(digits, 7)
    IN  {DigitsValue(SubSeq(ds, 1, Len(ds) - 6))}

\* The integers n for which n / 10^3 is as close as possible to
\* magnitude / 10^9, magnitude given by its digits.  magnitude / 10^6 is
\* q + r / 10^6.  When r is exactly half, the double that the division
\* returns lies on one side of the half or the other, which depends on the
\* number: either neighbour can be the result.
NearestThousandths(digits) ==
    LET ds == PadLeft(digits, 7)
        q == DigitsValue(SubSeq(ds, 1, Len(ds) - 6))
        r == DigitsValue(SubSeq(ds, Len(ds) - 5, Len(ds)))
    IN  IF r < 500000 THEN {q}
        ELSE IF r > 500000 THEN {q + 1}
        ELSE {q, q + 1}

\* Number.prototype.toFixed(3) of a number with sign neg whose nearest
\* thousandths are n: the digits of n, padded to four, with a point before
\* the last three; "-" in front for a number below zero.
ToFixed3(neg, n) ==
    LET m == PadLeft(NatToString(n), 4)
        a == SubSeq(m, 1, Len(m) - 3)
        b == SubSeq(m, Len(m) - 2, Len(m))
    IN  (IF neg THEN <<"-">> ELSE <<>>) \o a \o <<".">> \o b

\* formatToBillions(value): the strings it can return
FormatToBillions(value) ==
    IF value.k \in {"null", "undef"} THEN {<<"N", "/", "A">>}
    ELSE {ToFixed3(value.neg, n) \o <<" ", "B">> :
              n \in NearestThousandths(value.digits)}

---------------------------------------------------------------------------
(* Inputs: response bodies, rejections and input values *)

\* the arrays of at most MaxRecords records drawn from the set records
Arrays(records) == UNION {[1..n -> records] : n \in 0..MaxRecords}

EmptyString == JsString(<<>>)

\* response.data of a resolved axios.get: the parsed JSON array, or what a
\* 2xx answer without an array leaves there (JSON null, an empty body, a
\* JSON object such as an API error report)
ResponseBodies ==
    {JsArray(s) : s \in Arrays(ResponseRecords)} \cup {JsNull, EmptyString, JsObject}

\* err.message of a rejected axios.get
ErrorMessages == {"Network Error", "Request failed with status code 401"}

\* the options of the two selects
FirstYearOption == 2020
YearOptionCount == 5
YearOptions == {NatToString(FirstYearOption + i) : i \in 0..(YearOptionCount - 1)}

\* what is typed into the number inputs
TypedValues == {<<>>, <<"1", "0", "0">>}

FilterNames ==
    { <<"yearRange", "start">>, <<"yearRange", "end">>,
      <<"revenueRange", "min">>, <<"revenueRange", "max">>,
      <<"netIncomeRange", "min">>, <<"netIncomeRange", "max">> }

\* e.target.value of a change event of the control called name
InputValues(name) ==
    IF name[1] = "yearRange" THEN YearOptions ELSE TypedValues

SortKeys == {"date", "revenue", "netIncome"}

---------------------------------------------------------------------------
(* The component *)

DefaultFilters ==
    [ yearRange |-> [start |-> Num(2020), end |-> Num(2024)],
      revenueRange |-> [min |-> Num(0), max |-> Infinity],
      netIncomeRange |-> [min |-> Num(0), max |-> Infinity] ]

DefaultSortConfig == [key |-> "date", direction |-> "asc"]

Init ==
    /\ data = JsNull
    /\ filteredData = JsArray(<<>>)
    /\ loading = TRUE
    /\ error = NoError
    /\ isFilterVisible = FALSE
    /\ filters = DefaultFilters
    /\ sortConfig = DefaultSortConfig
    /\ sortedData = <<>>
    /\ requests = 0
    /\ crashed = FALSE
    /\ lastClick = ""
    /\ phase = "component"
    /\ event = NoEvent
    /\ num = NullLiteral
    /\ formatted = <<>>

\* the table and its controls are rendered: neither of the early returns
\* of lines 127-128 is taken
Rendered == ~crashed /\ ~loading /\ ~TruthyError(error)

\* The mount effects: fetchData() issues the GET (its dependencies API_URL
\* and API_KEY never change afterwards); applyFilters() finds data null.
FetchData ==
    /\ ~crashed
    /\ requests = 0
    /\ requests' = requests + 1
    /\ UNCHANGED <<data, filteredData, loading, error, isFilterVisible,
                   filters, sortConfig, sortedData, crashed, lastClick, phase,
                   event, num, formatted>>

\* the effect as it would be if it did not run: the result of the call
\* inside the updater stays
FiltersEffectSkipped(d, f, fd) == [threw |-> FALSE, filteredData |-> fd]

\* the effect that calls applyFilters, run after a render in which filters or
\* applyFilters (that is, data) changed
FiltersEffect(d, f, fd) == ApplyFilters(d, f, fd)

\* axios.get resolves: setData, setFilteredData and setLoading(false), all
\* called in one continuation of the await, are batched into one render (m1); then the filters effect runs (eff) and its
\* setFilteredData renders again (m2).
FetchResolve(body) ==
    /\ ~crashed /\ loading /\ requests = 1
    /\ data' = body
    /\ loading' = FALSE
    /\ \E m1 \in {SortedDataMemo(body, sortConfig)} :
       \E eff \in {FiltersEffect(body, filters, m1.filteredData)} :
       \E m2 \in {SortedDataMemo(eff.filteredData, sortConfig)} :
           IF m1.threw
           THEN /\ filteredData' = body
                /\ sortedData' = sortedData
                /\ crashed' = TRUE
           ELSE IF eff.threw
           THEN /\ filteredData' = m1.filteredData
                /\ sortedData' = m1.sortedData
                /\ crashed' = TRUE
           ELSE /\ filteredData' = m2.filteredData
                /\ sortedData' = m2.sortedData
                /\ crashed' = m2.threw
    /\ UNCHANGED <<error, isFilterVisible, filters, sortConfig, requests,
                   lastClick, phase, event, num, formatted>>

\* axios.get rejects: setError(err.message), setLoading(false)
FetchReject(msg) ==
    /\ ~crashed /\ loading /\ requests = 1
    /\ error' = ErrorMessage(msg)
    /\ loading' = FALSE
    /\ UNCHANGED <<data, filteredData, isFilterVisible, filters, sortConfig,
                   sortedData, requests, crashed, lastClick, phase, event, num,
                   formatted>>

\* newFilters of the setFilters updater
NewFilters(prevFilters, name, value) ==
    [prevFilters EXCEPT ![name[1]][name[2]] =
        IF value = <<>>
        THEN (IF name[2] = "max" THEN Infinity ELSE Num(0))
        ELSE ParseInt(value)]

\* handleFilterChange with the render and the effect it causes.  The
\* applyFilters call inside the updater ignores its argument and filters
\* with the filters of its closure (stale); the filters effect of the next
\* render filters with the new ones (eff); sortedData is recomputed (memo).
\* phase is left to the caller.
FilterChange(name, value) ==
    /\ Rendered /\ isFilterVisible
    /\ \E newFilters \in {NewFilters(filters, name, value)} :
       \E stale \in {ApplyFilters(data, filters, filteredData)} :
       \E eff \in {FiltersEffect(data, newFilters, stale.filteredData)} :
       \E memo \in {SortedDataMemo(eff.filteredData, sortConfig)} :
           /\ filters' = newFilters
           /\ filteredData' = memo.filteredData
           /\ sortedData' = IF memo.threw THEN sortedData ELSE memo.sortedData
           /\ crashed' = (stale.threw \/ eff.threw \/ memo.threw)
    /\ UNCHANGED <<data, loading, error, isFilterVisible, sortConfig,
                   requests, lastClick, event, num, formatted>>

\* a change event of a rendered control
HandleFilterChange(name, value) ==
    /\ FilterChange(name, value)
    /\ UNCHANGED phase

ToggleFilters ==
    /\ Rendered
    /\ isFilterVisible' = ~isFilterVisible
    /\ UNCHANGED <<data, filteredData, loading, error, filters, sortConfig,
                   sortedData, requests, crashed, lastClick, phase, event, num,
                   formatted>>

\* the click as it would be if the direction flipped whatever the key
SortClickAlwaysToggle(sc, key) ==
    [key |-> key,
     direction |-> IF sc.direction = "asc" THEN "desc" ELSE "asc"]

\* the object handleSort passes to setSortConfig
SortClick(sc, key) ==
    [key |-> key,
     direction |-> IF sc.key = key /\ sc.direction = "asc" THEN "desc"
                   ELSE "asc"]

\* the column headers are rendered only while filteredData has rows
HeadersRendered ==
    Rendered /\ filteredData.t = "array" /\ Len(filteredData.items) > 0

HandleSort(key) ==
    /\ HeadersRendered
    /\ \E sc \in {SortClick(sortConfig, key)} :
       \E memo \in {SortedDataMemo(filteredData, sc)} :
           /\ sortConfig' = sc
           /\ filteredData' = memo.filteredData
           /\ sortedData' = IF memo.threw THEN sortedData ELSE memo.sortedData
           /\ crashed' = memo.threw
    /\ lastClick' = key
    /\ UNCHANGED <<data, loading, error, isFilterVisible, filters, requests,
                   phase, event, num, formatted>>

Next ==
    \/ FetchData
    \/ \E body \in ResponseBodies : FetchResolve(body)
    \/ \E msg \in ErrorMessages : FetchReject(msg)
    \/ \E name \in FilterNames : \E value \in InputValues(name) :
           HandleFilterChange(name, value)
    \/ ToggleFilters
    \/ \E key \in SortKeys : HandleSort(key)

Spec == Init /\ [][Next]_vars

---------------------------------------------------------------------------
(* The request states of the component *)

Loading == loading
Ready == ~loading /\ data # JsNull /\ error = NoError
Failed == ~loading /\ error # NoError /\ data = JsNull

ExactlyOneRequestState ==
    /\ Loading \/ Ready \/ Failed
    /\ ~(Loading /\ Ready)
    /\ ~(Loading /\ Failed)
    /\ ~(Ready /\ Failed)

\* C1: in every reachable state exactly one of Loading, Ready and Failed
\* holds, and once loading is false it stays false.
C1_RequestStates ==
    /\ []ExactlyOneRequestState
    /\ [][~loading => ~loading']_vars

\* C2: a fetch that ended without a record array (a rejection, or a body
\* that is no array) has left an error message and no dataset; at most one
\* GET is issued; no step leads from Failed to Ready.
C2_FailedFetch ==
    /\ [](~loading /\ data.t # "array"
            => TruthyError(error) /\ data = JsNull)
    /\ [](requests <= 1)
    /\ [][Failed => ~Ready']_vars

\* C3: while the table of a fetched array is rendered, filteredData is the
\* filter of data under the current filters and sortedData is the sort of
\* filteredData under the current sortConfig.
C3_ViewsFollowCriteria ==
    Rendered /\ data.t = "array" =>
        /\ filteredData = JsArray(ArrayFilter(data.items, filters))
        /\ sortedData = ArraySort(filteredData.items, sortConfig)

\* filters and sortConfig have both been changed, a record is filtered
\* out and the sort has reordered the rest
C3_Witness ==
    /\ Rendered /\ data.t = "array"
    /\ filters # DefaultFilters
    /\ sortConfig # DefaultSortConfig
    /\ filteredData.t = "array"
    /\ Len(filteredData.items) < Len(data.items)
    /\ Len(filteredData.items) >= 1
    /\ lastClick # ""

\* C8: once the fetch has completed no step changes data, and a step that
\* only recomputes the sorted view (a header click) leaves filteredData as
\* it was.
C8_SourcesUntouched ==
    [][ /\ ~loading => data' = data
        /\ sortConfig' # sortConfig => filteredData' = filteredData ]_vars

\* the sort has put the rows in another order than filteredData has
C8_Witness ==
    /\ Rendered /\ data.t = "array"
    /\ filteredData.t = "array"
    /\ Len(filteredData.items) >= 2
    /\ sortedData # filteredData.items
    /\ filteredData = data

\* C10: the key is the last clicked header, one of date, revenue and
\* netIncome; a click gives desc exactly when it is on the current key
\* while the direction is asc, and asc otherwise; a click changes neither
\* data nor filters.  Before any click sortConfig is {date, asc}.
C10_SortClicks ==
    /\ [](sortConfig.key \in SortKeys /\ sortConfig.direction \in {"asc", "desc"})
    /\ [](lastClick = "" => sortConfig = DefaultSortConfig)
    /\ [](lastClick # "" => sortConfig.key = lastClick)
    /\ [][ sortConfig' # sortConfig \/ lastClick' # lastClick =>
             /\ sortConfig'.direction =
                  (IF sortConfig.key = lastClick' /\ sortConfig.direction = "asc"
                   THEN "desc" ELSE "asc")
             /\ data' = data
             /\ filters' = filters ]_vars

\* a second click on another header than the default has given desc
C10_Witness ==
    /\ lastClick = "revenue"
    /\ sortConfig = [key |-> "revenue", direction |-> "desc"]

---------------------------------------------------------------------------
(* applyFilters on its own: any array, any criteria *)

\* filters values: the default ones and what the selects and the number
\* inputs can set, among them a NaN bound (parseInt of a value like ".5")
FilterCriteria ==
    { [ yearRange |-> [start |-> Num(ys), end |-> Num(ye)],
        revenueRange |-> [min |-> rmin, max |-> rmax],
        netIncomeRange |-> [min |-> nmin, max |-> nmax] ] :
      ys \in {2020, 2021}, ye \in {2020, 2024},
      rmin \in {Num(0), Num(100)}, rmax \in {Infinity, Num(100), NaN},
      nmin \in {Num(0), Num(100)}, nmax \in {Infinity, Num(100)} }

FilterInit ==
    /\ data \in {JsArray(s) : s \in Arrays(SampleRecords)}
    /\ filters \in FilterCriteria
    /\ filteredData = JsArray(<<>>)
    /\ loading = FALSE
    /\ error = NoError
    /\ isFilterVisible = FALSE
    /\ sortConfig = DefaultSortConfig
    /\ sortedData = <<>>
    /\ requests = 1
    /\ crashed = FALSE
    /\ lastClick = ""
    /\ phase = "called"
    /\ event = NoEvent
    /\ num = NullLiteral
    /\ formatted = <<>>

RunApplyFilters ==
    /\ phase = "called"
    /\ \E r \in {ApplyFilters(data, filters, filteredData)} :
           /\ filteredData' = r.filteredData
           /\ crashed' = r.threw
    /\ phase' = "returned"
    /\ UNCHANGED <<data, loading, error, isFilterVisible, filters, sortConfig,
                   sortedData, requests, lastClick, event, num, formatted>>

FilterNext == RunApplyFilters

FilterSpec == FilterInit /\ [][FilterNext]_vars

\* the integer written before the first '-' of a date
LeadingYear(date) == DigitsValue(SubSeq(date, 1, IndexOf(date, "-", 1) - 1))

\* lo <= v <= hi for a number v and bounds that are numbers or +Infinity
InRange(v, lo, hi) ==
    /\ v.k = "num"
    /\ lo.k = "num" /\ lo.v <= v.v
    /\ hi.k = "inf" \/ (hi.k = "num" /\ v.v <= hi.v)

\* out is the subsequence of inp, in the order of inp, of the elements
\* that satisfy Keep
IsSubsequenceBy(out, inp, Keep(_)) ==
    LET idx == {i \in 1..Len(inp) : Keep(inp[i])}
    IN  /\ Len(out) = Cardinality(idx)
        /\ \A i \in idx : out[Cardinality({j \in idx : j <= i})] = inp[i]

InAllRanges(item, f) ==
    /\ InRange(Num(LeadingYear(item.date)), f.yearRange.start, f.yearRange.end)
    /\ InRange(item.revenue, f.revenueRange.min, f.revenueRange.max)
    /\ InRange(item.netIncome, f.netIncomeRange.min, f.netIncomeRange.max)

\* C4 as stated: the filter result is the subsequence of the records whose
\* year, revenue and netIncome all lie in their ranges, bounds included.
C4_FilterIsRangeSubsequence ==
    phase = "returned" =>
        LET Keep(item) == InAllRanges(item, filters)
        IN  /\ filteredData.t = "array"
            /\ IsSubsequenceBy(filteredData.items, data.items, Keep)

NullAsZero(v) == IF v.k = "null" THEN Num(0) ELSE v

InAllRangesNullAsZero(item, f) ==
    /\ InRange(Num(LeadingYear(item.date)), f.yearRange.start, f.yearRange.end)
    /\ InRange(NullAsZero(item.revenue), f.revenueRange.min, f.revenueRange.max)
    /\ InRange(NullAsZero(item.netIncome), f.netIncomeRange.min,
               f.netIncomeRange.max)

\* C4 amended: the filter result is the subsequence, in input order, of
\* the records whose year, revenue and netIncome all lie in their ranges,
\* bounds included, where a null revenue or netIncome counts as 0.
C4_FilterIsRangeSubsequenceNullAsZero ==
    phase = "returned" =>
        LET Keep(item) == InAllRangesNullAsZero(item, filters)
        IN  /\ filteredData.t = "array"
            /\ IsSubsequenceBy(filteredData.items, data.items, Keep)

\* a record passes on the bound revenue = min = 100 while another record
\* is dropped
C4_Witness ==
    /\ phase = "returned"
    /\ filters.revenueRange.min = Num(100)
    /\ filters.revenueRange.max = Num(100)
    /\ Len(filteredData.items) = 1
    /\ filteredData.items[1].revenue = Num(100)
    /\ Len(data.items) = 2
    /\ data.items[2] = filteredData.items[1]

IsAbsent(v) == v.k \in {"null", "undef"}

\* C5 as stated: a record whose revenue or netIncome is null or undefined
\* is never in the filtered view, and filtering does not throw.
C5_AbsentFieldsExcluded ==
    phase = "returned" =>
        /\ ~crashed
        /\ \A i \in 1..Len(filteredData.items) :
               /\ ~IsAbsent(filteredData.items[i].revenue)
               /\ ~IsAbsent(filteredData.items[i].netIncome)

InArray(r, items) == \E i \in 1..Len(items) : items[i] = r

\* C5 amended: a record whose revenue or netIncome is undefined is never in
\* the filtered view; a record with a null revenue or netIncome is in it
\* exactly when its year is in range and 0 (for the null field) and the
\* other field lie in their ranges, so under the default criteria it is
\* included; filtering does not throw.
C5_UndefinedExcludedNullAsZero ==
    phase = "returned" =>
        /\ ~crashed
        /\ \A i \in 1..Len(data.items) :
               LET r == data.items[i]
               IN  /\ (r.revenue = Undefined \/ r.netIncome = Undefined)
                         => ~InArray(r, filteredData.items)
                   /\ (r.revenue = Null \/ r.netIncome = Null)
                         => (InArray(r, filteredData.items)
                               <=> InAllRangesNullAsZero(r, filters))
        /\ (filters = DefaultFilters =>
               \A i \in 1..Len(data.items) :
                   LET r == data.items[i]
                       rev == NullAsZero(r.revenue)
                       inc == NullAsZero(r.netIncome)
                   IN  (/\ r.revenue = Null \/ r.netIncome = Null
                        /\ rev.k = "num" /\ rev.v >= 0
                        /\ inc.k = "num" /\ inc.v >= 0
                        /\ LeadingYear(r.date) \in 2020..2024)
                           => InArray(r, filteredData.items))

\* under the default criteria a record with a null revenue is kept and a
\* record with an undefined netIncome is dropped
C5_Witness ==
    /\ phase = "returned"
    /\ filters = DefaultFilters
    /\ \E i \in 1..Len(filteredData.items) : filteredData.items[i].revenue = Null
    /\ \E i \in 1..Len(data.items) :
           /\ data.items[i].netIncome = Undefined
           /\ ~InArray(data.items[i], filteredData.items)

---------------------------------------------------------------------------
(* sortedData on its own: any filtered list, any key, both directions *)

\* sortConfig values, among them keys that no header sets
SortConfigs ==
    { [key |-> k, direction |-> d] :
      k \in SortKeys \cup {"eps", ""}, d \in {"asc", "desc"} }

SortInit ==
    /\ data \in {JsArray(s) : s \in Arrays(SampleRecords)}
    /\ filters = DefaultFilters
    /\ filteredData = JsArray(ArrayFilter(data.items, filters))
    /\ loading = FALSE
    /\ error = NoError
    /\ isFilterVisible = FALSE
    /\ sortConfig \in SortConfigs
    /\ sortedData = <<>>
    /\ requests = 1
    /\ crashed = FALSE
    /\ lastClick = ""
    /\ phase = "called"
    /\ event = NoEvent
    /\ num = NullLiteral
    /\ formatted = <<>>

RunSortedData ==
    /\ phase = "called"
    /\ \E memo \in {SortedDataMemo(filteredData, sortConfig)} :
           /\ filteredData' = memo.filteredData
           /\ sortedData' = memo.sortedData
           /\ crashed' = memo.threw
    /\ phase' = "returned"
    /\ UNCHANGED <<data, loading, error, isFilterVisible, filters, sortConfig,
                   requests, lastClick, event, num, formatted>>

SortNext == RunSortedData

SortSpec == SortInit /\ [][SortNext]_vars

\* the number a record is ordered by under key (a null revenue or
\* netIncome orders as 0)
KeyValue(r, key) ==
    CASE key = "date" -> TimeOfDate[r.date].v
      [] key = "revenue" -> NullAsZero(r.revenue).v
      [] key = "netIncome" -> NullAsZero(r.netIncome).v

\* out is inp rearranged by p, ordered by the key in the direction, and
\* records with equal keys are in their input order
IsStableOrdering(out, inp, p, key, direction) ==
    /\ \A i \in 1..Len(inp) : out[i] = inp[p[i]]
    /\ \A i, j \in 1..Len(inp) :
           i < j =>
               LET a == KeyValue(inp[p[i]], key)
                   b == KeyValue(inp[p[j]], key)
               IN  \/ direction = "asc" /\ a < b
                   \/ direction = "desc" /\ a > b
                   \/ a = b /\ p[i] < p[j]

\* C7: for the keys date, revenue and netIncome the sorted view is a
\* permutation of the filtered list ordered by the key, ties in input
\* order in both directions; for any other key it is the input order.
C7_StableSort ==
    phase = "returned" =>
        /\ ~crashed
        /\ Len(sortedData) = Len(filteredData.items)
        /\ IF sortConfig.key \in SortKeys
           THEN \E p \in Permutations(1..Len(sortedData)) :
                    IsStableOrdering(sortedData, filteredData.items, p,
                                     sortConfig.key, sortConfig.direction)
           ELSE sortedData = filteredData.items

\* two different records with the same revenue, sorted by revenue desc,
\* are still in their input order
C7_Witness ==
    /\ phase = "returned"
    /\ sortConfig = [key |-> "revenue", direction |-> "desc"]
    /\ Len(filteredData.items) = 2
    /\ filteredData.items[1] # filteredData.items[2]
    /\ filteredData.items[1].revenue = filteredData.items[2].revenue
    /\ sortedData = filteredData.items

---------------------------------------------------------------------------
(* formatToBillions on its own *)

\* the decimal literal of millions * 10^6 + rest, for rest < 10^6
Literal(millions, rest) ==
    IF millions = 0 THEN NatToString(rest)
    ELSE NatToString(millions) \o PadLeft(NatToString(rest), 6)

FormatArguments ==
    {NullLiteral, UndefinedLiteral} \cup
    ({ NumberLiteral(neg, Literal(m, r)) :
       neg \in BOOLEAN,
       m \in {0, 1, 12, 999, 1000, 94680, 383285},
       r \in {0, 1, 499999, 500000, 500001, 999999} }
     \ {NumberLiteral(TRUE, <<"0">>)})

FormatInit ==
    /\ data = JsNull
    /\ filteredData = JsArray(<<>>)
    /\ loading = FALSE
    /\ error = NoError
    /\ isFilterVisible = FALSE
    /\ filters = DefaultFilters
    /\ sortConfig = DefaultSortConfig
    /\ sortedData = <<>>
    /\ requests = 1
    /\ crashed = FALSE
    /\ lastClick = ""
    /\ phase = "called"
    /\ event = NoEvent
    /\ num \in FormatArguments
    /\ formatted = <<>>

RunFormatToBillions ==
    /\ phase = "called"
    /\ formatted' \in FormatToBillions(num)
    /\ phase' = "returned"
    /\ UNCHANGED <<data, filteredData, loading, error, isFilterVisible,
                   filters, sortConfig, sortedData, requests, crashed,
                   lastClick, event, num>>

FormatNext == RunFormatToBillions

FormatSpec == FormatInit /\ [][FormatNext]_vars

Text1B == <<"1", ".", "0", "0", "0", " ", "B">>
Text383B == <<"3", "8", "3", ".", "2", "8", "5", " ", "B">>

\* text reads as a number with exactly three decimals followed by " B",
\* and that number is num / 10^9 rounded to the nearest thousandth
IsRoundedBillions(text, n) ==
    LET signed == text # <<>> /\ text[1] = "-"
        body == IF signed THEN Tail(text) ELSE text
        point == IndexOf(body, ".", 1)
        whole == SubSeq(body, 1, point - 1)
        frac == SubSeq(body, point + 1, point + 3)
        ds == PadLeft(n.digits, 7)
        q == DigitsValue(SubSeq(ds, 1, Len(ds) - 6))
        r == DigitsValue(SubSeq(ds, Len(ds) - 5, Len(ds)))
        shown == 1000 * DigitsValue(whole) + DigitsValue(frac)
    IN  /\ signed = n.neg
        /\ point > 1
        /\ Len(body) = point + 5
        /\ AllDigits(whole) /\ AllDigits(frac)
        /\ whole = StripZeros(whole)
        /\ SubSeq(body, point + 4, point + 5) = <<" ", "B">>
        /\ \/ shown = q /\ r <= 500000
           \/ shown = q + 1 /\ r >= 500000

\* C9: formatToBillions returns "N/A" for null and undefined, and for a
\* number the value divided by 10^9 rounded to three decimals followed by
\* " B": "1.000 B" for 1000000000, "383.285 B" for 383285000000.
C9_FormatToBillions ==
    phase = "returned" =>
        /\ num.k \in {"null", "undef"} => formatted = <<"N", "/", "A">>
        /\ num.k = "num" => IsRoundedBillions(formatted, num)
        /\ num = NumberLiteral(FALSE, Literal(1000, 0)) => formatted = Text1B
        /\ num = NumberLiteral(FALSE, Literal(383285, 0)) => formatted = Text383B

\* 383285000000 has been formatted
C9_Witness ==
    /\ phase = "returned"
    /\ num = NumberLiteral(FALSE, <<"3", "8", "3", "2", "8", "5",
                                    "0", "0", "0", "0", "0", "0">>)
    /\ formatted = Text383B

---------------------------------------------------------------------------
(* handleFilterChange on its own: any control name with any value *)

HandledValues == YearOptions \cup TypedValues \cup {<<".", "5">>}

HandlerInit ==
    /\ data \in {JsArray(s) : s \in Arrays(ResponseRecords)}
    /\ filters \in FilterCriteria
    /\ filteredData = JsArray(ArrayFilter(data.items, filters))
    /\ loading = FALSE
    /\ error = NoError
    /\ isFilterVisible = TRUE
    /\ sortConfig = DefaultSortConfig
    /\ sortedData = ArraySort(filteredData.items, sortConfig)
    /\ requests = 1
    /\ crashed = FALSE
    /\ lastClick = ""
    /\ phase = "called"
    /\ event \in [name : FilterNames, value : HandledValues]
    /\ num = NullLiteral
    /\ formatted = <<>>

RunHandleFilterChange ==
    /\ phase = "called"
    /\ FilterChange(event.name, event.value)
    /\ phase' = "returned"

HandlerNext == RunHandleFilterChange

HandlerSpec == HandlerInit /\ [][HandlerNext]_vars

IsNumber(v) == v.k \in {"num", "inf", "nan"}

=============================================================================
